---- MODULE Spec2Model ----
(***************************************************************************)
(* Model of the weather service of main.go: the /weather handler           *)
(* (weatherHandler), the two-hop upstream lookup (getForecast) and the     *)
(* temperature classifier (classify).                                      *)
(*                                                                         *)
(* A request is a goroutine of the net/http server.  Its steps are cut at  *)
(* the points where the goroutine blocks: the arrival of the request, the  *)
(* code up to the first outbound call, the return of the points call, and  *)
(* the return of the forecast call.  Strings the code inspects character   *)
(* by character (query parameters, timestamps, dates) are sequences of     *)
(* one-character strings; the others are TLA+ strings.                     *)
(***************************************************************************)
EXTENDS Integers, Sequences, FiniteSets, TLC

VARIABLES
    pc,             \* per request: where the handler goroutine is
    query,          \* per request: r.URL.Query(), a map from key to value
    pointsCalls,    \* per request: number of requests sent to the points API
    forecastCalls,  \* per request: number of requests sent to the forecast API
    pointsResp,     \* per request: what http.DefaultClient.Do(pointsReq) returned
    forecastURL,    \* per request: pr.Properties.Forecast
    forecastResp,   \* per request: what http.DefaultClient.Do(foreReq) returned
    fr,             \* per request: fr.Properties.Periods after json.Unmarshal
    today,          \* per request: time.Now().Format("2006-01-02")
    err,            \* per request: the error returned by getForecast
    response,       \* per request: the responses written to the ResponseWriter
    log             \* the process-wide log (standard logger)

vars == <<pc, query, pointsCalls, forecastCalls, pointsResp, forecastURL,
          forecastResp, fr, today, err, response, log>>

-----------------------------------------------------------------------------
(* Bounds of the model *)

MaxPeriods == 2
NumReqs == 2
MaxAbsTemp == 120

-----------------------------------------------------------------------------
(* Values *)

NoError == "nil"
NoValue == "none"
NoDate == <<>>

StatusOK == 200
StatusBadRequest == 400
StatusInternalServerError == 500

TransportErr == "dial tcp: connect: connection refused"
SchemeErr == "unsupported protocol scheme"
DecodeErr == "invalid character '<' looking for beginning of value"
ErrTexts == {TransportErr, SchemeErr, DecodeErr}

NilRequestPanic == "runtime error: invalid memory address or nil pointer dereference"
IndexPanic == "runtime error: index out of range [0] with length 0"

\* Query parameter values, as sequences of characters.
QueryStrs ==
    { <<>>, <<"a">>, <<".">>, <<"1">>, <<"-", "1", ".", "5">>,
      <<"1", ".", "5", ".">> }

Keys == {"lat", "lon"}

\* Every query: each key absent, or present with one of the values.
Queries == UNION { [K -> QueryStrs] : K \in SUBSET Keys }

\* Two calendar days, formatted YYYY-MM-DD.
Day1 == <<"2", "0", "2", "6", "-", "1", "1", "-", "0", "1">>
Day2 == <<"2", "0", "2", "6", "-", "1", "1", "-", "0", "2">>
Days == {Day1, Day2}

\* Timestamps of forecast periods: ISO-8601 date-times of both days, and a
\* truncated one of 9 characters.
StartTimes ==
    { Day1 \o <<"T", "0", "6">>, Day2 \o <<"T", "0", "6">>, SubSeq(Day1, 1, 9) }

Temperatures == {50, 65, 80}
ShortForecasts == {"Sunny", "Rain"}

\* ForecastResponse.Properties.Periods[i]; Name and TemperatureUnit are
\* decoded but never read, and are left out.
Period ==
    [ StartTime : StartTimes, Temperature : Temperatures,
      ShortForecast : ShortForecasts, IsDaytime : BOOLEAN ]

SeqsUpTo(S, n) == UNION { [1..k -> S] : k \in 0..n }

GoodURL == "https://api.weather.gov/gridpoints/LWX/97,71/forecast"
EmptyURL == ""
BadURL == ":gridpoints"
ForecastURLs == {GoodURL, EmptyURL, BadURL}

\* What http.DefaultClient.Do returns, with the body read by ioutil.ReadAll:
\* a transport error, or a body that is JSON of the expected shape or not.
TransportFailure(e) == [err |-> e, valid |-> FALSE, forecast |-> EmptyURL, periods |-> <<>>]
NotJSON == [err |-> NoError, valid |-> FALSE, forecast |-> EmptyURL, periods |-> <<>>]
PointsBody(u) == [err |-> NoError, valid |-> TRUE, forecast |-> u, periods |-> <<>>]
ForecastBody(ps) == [err |-> NoError, valid |-> TRUE, forecast |-> EmptyURL, periods |-> ps]
NotReturned == [err |-> NoValue, valid |-> FALSE, forecast |-> EmptyURL, periods |-> <<>>]

PointsOutcomes ==
    {TransportFailure(TransportErr), NotJSON} \cup { PointsBody(u) : u \in ForecastURLs }

ForecastOutcomes ==
    {TransportFailure(TransportErr), NotJSON}
        \cup { ForecastBody(ps) : ps \in SeqsUpTo(Period, MaxPeriods) }

-----------------------------------------------------------------------------
(* Pure functions of the program *)

\* classify with the hot threshold exclusive.
classifyHotAbove(temp) ==
    IF temp > 80 THEN "hot"
    ELSE IF temp <= 50 THEN "cold"
    ELSE "moderate"

\* classify: the switch on the temperature, first case first.
classify(temp) ==
    IF temp >= 80 THEN "hot"
    ELSE IF temp <= 50 THEN "cold"
    ELSE "moderate"

\* url.Values.Get: the value of the key, "" when the key is absent.
Get(q, key) == IF key \in DOMAIN q THEN q[key] ELSE <<>>

Digits == {"0", "1", "2", "3", "4", "5", "6", "7", "8", "9"}

\* strconv.ParseFloat(s, 64) returns an error, for the strings over digits,
\* "-", "." and letters: a decimal number is an optional sign, digits with
\* at most one point, and at least one digit.
ParseFloatFails(s) ==
    LET body == IF Len(s) > 0 /\ s[1] \in {"-", "+"} THEN Tail(s) ELSE s
        points == { i \in DOMAIN body : body[i] = "." }
        digits == { i \in DOMAIN body : body[i] \in Digits }
    IN  ~ ( /\ digits # {}
            /\ Cardinality(points) <= 1
            /\ points \cup digits = DOMAIN body )

\* http.Error(w, msg, code).  Both http.Error and the JSON encoder end the
\* body with a newline; body is the line written, without it.
HttpError(msg, code) ==
    [status |-> code, contentType |-> "text/plain; charset=utf-8", body |-> msg]

\* The encoding of a WeatherResult by encoding/json: the fields in the
\* order of the struct, under the names of their json tags.  (No string of
\* ShortForecasts has a character the encoder escapes.)
EncodeWeatherResult(forecast, temp, classification) ==
    "{\"forecast\":\"" \o forecast \o "\",\"temperature\":" \o ToString(temp)
        \o ",\"classification\":\"" \o classification \o "\"}"

\* json.NewEncoder(w).Encode(WeatherResult{...}) after setting Content-Type.
JsonResult(forecast, temp, classification) ==
    [ status |-> StatusOK, contentType |-> "application/json",
      body |-> EncodeWeatherResult(forecast, temp, classification) ]

\* The parameter checks with the longitude parsed before the latitude.
ValidationLonFirst(latStr, lonStr) ==
    IF latStr = <<>> \/ lonStr = <<>>
    THEN "Missing lat or lon parameter"
    ELSE IF ParseFloatFails(lonStr)
    THEN "Invalid longitude"
    ELSE IF ParseFloatFails(latStr)
    THEN "Invalid latitude"
    ELSE NoValue

\* The parameter checks without the parse of the longitude.
ValidationSkippingLon(latStr, lonStr) ==
    IF latStr = <<>> \/ lonStr = <<>>
    THEN "Missing lat or lon parameter"
    ELSE IF ParseFloatFails(latStr)
    THEN "Invalid latitude"
    ELSE NoValue

\* The parameter checks of weatherHandler, in the order of the code: the
\* message of the first failing check, or NoValue when all pass.
Validation(latStr, lonStr) ==
    IF latStr = <<>> \/ lonStr = <<>>
    THEN "Missing lat or lon parameter"
    ELSE IF ParseFloatFails(latStr)
    THEN "Invalid latitude"
    ELSE IF ParseFloatFails(lonStr)
    THEN "Invalid longitude"
    ELSE NoValue

\* The 500 response with the error text as its body.
FailureResponseLeaking(e) == HttpError(e, StatusInternalServerError)

\* The response of weatherHandler when getForecast returned error e.
FailureResponse(e) == HttpError("Failed to fetch forecast", StatusInternalServerError)

\* The line weatherHandler logs when getForecast returned error e.
ErrorLogLine(r, e) == [req |-> r, msg |-> "Error fetching forecast:", err |-> e]

\* The line the net/http server logs when it recovers a panic of a handler.
PanicLogLine(r, p) == [req |-> r, msg |-> "http: panic serving", err |-> p]

\* http.NewRequest returns a nil request when the URL does not parse.
NewRequestIsNil(u) == u = BadURL

\* http.DefaultClient.Do fails before sending when the URL has no scheme.
SchemeUnsupported(u) == u = EmptyURL

\* The condition of the loop of getForecast on one period.
IsTodaysDaytime(p, day) ==
    p.IsDaytime /\ Len(p.StartTime) >= 10 /\ SubSeq(p.StartTime, 1, 10) = day

\* The loop of getForecast from index i on: the index of the period it
\* returns from, 0 when it runs to the end.
RECURSIVE ScanPeriods(_, _, _)
ScanPeriods(periods, i, day) ==
    IF i > Len(periods) THEN 0
    ELSE IF IsTodaysDaytime(periods[i], day) THEN i
    ELSE ScanPeriods(periods, i + 1, day)

\* The selection without the test of IsDaytime.
SelectedIndexIgnoringDaytime(periods, day) ==
    LET dated == { i \in DOMAIN periods :
                     /\ Len(periods[i].StartTime) >= 10
                     /\ SubSeq(periods[i].StartTime, 1, 10) = day }
    IN  IF dated # {} THEN CHOOSE i \in dated : \A j \in dated : i <= j
        ELSE IF Len(periods) > 0 THEN 1
        ELSE 0

\* Step 3 of getForecast and its fallback: the index of the selected
\* period (1-based), 0 when Periods[0] is out of range.
SelectedIndex(periods, day) ==
    LET found == ScanPeriods(periods, 1, day)
    IN  IF found # 0 THEN found
        ELSE IF Len(periods) > 0 THEN 1
        ELSE 0

\* The result with the label of the first period's temperature.
PeriodResultClassifyingFirst(periods, i) ==
    JsonResult(periods[i].ShortForecast, periods[i].Temperature,
               classify(periods[1].Temperature))

\* The values getForecast returns from period i, as weatherHandler
\* writes them.
PeriodResult(periods, i) ==
    JsonResult(periods[i].ShortForecast, periods[i].Temperature,
               classify(periods[i].Temperature))

-----------------------------------------------------------------------------
(* State machine *)

InitReqs(R) ==
    /\ pc = [r \in R |-> "idle"]
    /\ query = [r \in R |-> <<>>]
    /\ pointsCalls = [r \in R |-> 0]
    /\ forecastCalls = [r \in R |-> 0]
    /\ pointsResp = [r \in R |-> NotReturned]
    /\ forecastURL = [r \in R |-> NoValue]
    /\ forecastResp = [r \in R |-> NotReturned]
    /\ fr = [r \in R |-> <<>>]
    /\ today = [r \in R |-> NoDate]
    /\ err = [r \in R |-> NoError]
    /\ response = [r \in R |-> <<>>]
    /\ log = <<>>

Reqs == DOMAIN pc

\* weatherHandler returns after writing response resp.
Respond(r, resp) ==
    /\ response' = [response EXCEPT ![r] = Append(@, resp)]
    /\ pc' = [pc EXCEPT ![r] = "done"]

\* getForecast returns error e: weatherHandler logs it and answers 500.
Fail(r, e) ==
    /\ err' = [err EXCEPT ![r] = e]
    /\ log' = Append(log, ErrorLogLine(r, e))
    /\ Respond(r, FailureResponse(e))

\* The handler panics: the server recovers, logs, and closes the
\* connection without a response.
Panic(r, p) ==
    /\ pc' = [pc EXCEPT ![r] = "panicked"]
    /\ log' = Append(log, PanicLogLine(r, p))
    /\ UNCHANGED <<response, err>>

\* The server accepts a request for /weather and starts weatherHandler.
Arrive(r, Qs) ==
    /\ pc[r] = "idle"
    /\ \E q \in Qs : query' = [query EXCEPT ![r] = q]
    /\ pc' = [pc EXCEPT ![r] = "handling"]
    /\ UNCHANGED <<pointsCalls, forecastCalls, pointsResp, forecastURL,
                   forecastResp, fr, today, err, response, log>>

\* weatherHandler up to the first outbound call: the parameter checks,
\* then getForecast sends the points request.
Handle(r) ==
    /\ pc[r] = "handling"
    /\ LET invalid == Validation(Get(query[r], "lat"), Get(query[r], "lon"))
       IN  IF invalid # NoValue
           THEN /\ Respond(r, HttpError(invalid, StatusBadRequest))
                /\ UNCHANGED pointsCalls
           ELSE /\ pointsCalls' = [pointsCalls EXCEPT ![r] = @ + 1]
                /\ pc' = [pc EXCEPT ![r] = "awaitPoints"]
                /\ UNCHANGED response
    /\ UNCHANGED <<query, forecastCalls, pointsResp, forecastURL,
                   forecastResp, fr, today, err, log>>

\* The return of the points call with the error of json.Unmarshal dropped.
PointsReturnIgnoringDecodeError(r, Outcomes) ==
    /\ pc[r] = "awaitPoints"
    /\ \E o \in Outcomes :
        /\ pointsResp' = [pointsResp EXCEPT ![r] = o]
        /\ IF o.err # NoError
           THEN /\ Fail(r, o.err)
                /\ UNCHANGED <<forecastURL, forecastCalls>>
           ELSE /\ forecastURL' = [forecastURL EXCEPT ![r] = o.forecast]
                /\ IF NewRequestIsNil(o.forecast)
                   THEN /\ Panic(r, NilRequestPanic)
                        /\ UNCHANGED forecastCalls
                   ELSE /\ forecastCalls' = [forecastCalls EXCEPT ![r] = @ + 1]
                        /\ pc' = [pc EXCEPT ![r] = "awaitForecast"]
                        /\ UNCHANGED <<response, err, log>>
    /\ UNCHANGED <<query, pointsCalls, forecastResp, fr, today>>

\* The points call returns: getForecast decodes the body, builds the
\* forecast request and sends it.
PointsReturn(r, Outcomes) ==
    /\ pc[r] = "awaitPoints"
    /\ \E o \in Outcomes :
        /\ pointsResp' = [pointsResp EXCEPT ![r] = o]
        /\ IF o.err # NoError
           THEN /\ Fail(r, o.err)
                /\ UNCHANGED <<forecastURL, forecastCalls>>
           ELSE IF ~ o.valid
           THEN /\ Fail(r, DecodeErr)
                /\ UNCHANGED <<forecastURL, forecastCalls>>
           ELSE /\ forecastURL' = [forecastURL EXCEPT ![r] = o.forecast]
                /\ IF NewRequestIsNil(o.forecast)
                   THEN /\ Panic(r, NilRequestPanic)
                        /\ UNCHANGED forecastCalls
                   ELSE /\ forecastCalls' = [forecastCalls EXCEPT ![r] = @ + 1]
                        /\ pc' = [pc EXCEPT ![r] = "awaitForecast"]
                        /\ UNCHANGED <<response, err, log>>
    /\ UNCHANGED <<query, pointsCalls, forecastResp, fr, today>>

\* What the forecast call can return for URL u.
ForecastReturns(u, Outcomes) ==
    IF SchemeUnsupported(u) THEN {TransportFailure(SchemeErr)} ELSE Outcomes

\* The return of the forecast call with the decoded periods held in one
\* variable of the package, shared by all requests.
ForecastReturnSharedPeriods(r, Outcomes, Ds) ==
    /\ pc[r] = "awaitForecast"
    /\ \E o \in ForecastReturns(forecastURL[r], Outcomes), d \in Ds :
        /\ forecastResp' = [forecastResp EXCEPT ![r] = o]
        /\ IF o.err # NoError
           THEN /\ Fail(r, o.err)
                /\ UNCHANGED <<fr, today>>
           ELSE IF ~ o.valid
           THEN /\ Fail(r, DecodeErr)
                /\ UNCHANGED <<fr, today>>
           ELSE /\ fr' = [q \in DOMAIN fr |-> o.periods]
                /\ today' = [today EXCEPT ![r] = d]
                /\ LET i == SelectedIndex(o.periods, d)
                   IN  IF i = 0
                       THEN Panic(r, IndexPanic)
                       ELSE /\ Respond(r, PeriodResult(o.periods, i))
                            /\ UNCHANGED <<err, log>>
    /\ UNCHANGED <<query, pointsCalls, forecastCalls, pointsResp, forecastURL>>

\* The forecast call returns: getForecast decodes the periods, reads the
\* date, selects a period, and weatherHandler writes the result.
ForecastReturn(r, Outcomes, Ds) ==
    /\ pc[r] = "awaitForecast"
    /\ \E o \in ForecastReturns(forecastURL[r], Outcomes), d \in Ds :
        /\ forecastResp' = [forecastResp EXCEPT ![r] = o]
        /\ IF o.err # NoError
           THEN /\ Fail(r, o.err)
                /\ UNCHANGED <<fr, today>>
           ELSE IF ~ o.valid
           THEN /\ Fail(r, DecodeErr)
                /\ UNCHANGED <<fr, today>>
           ELSE /\ fr' = [fr EXCEPT ![r] = o.periods]
                /\ today' = [today EXCEPT ![r] = d]
                /\ LET i == SelectedIndex(o.periods, d)
                   IN  IF i = 0
                       THEN Panic(r, IndexPanic)
                       ELSE /\ Respond(r, PeriodResult(o.periods, i))
                            /\ UNCHANGED <<err, log>>
    /\ UNCHANGED <<query, pointsCalls, forecastCalls, pointsResp, forecastURL>>

\* One request, with every query and every upstream outcome.
Init == InitReqs({1})

Next ==
    \E r \in Reqs :
        \/ Arrive(r, Queries)
        \/ Handle(r)
        \/ PointsReturn(r, PointsOutcomes)
        \/ ForecastReturn(r, ForecastOutcomes, Days)

Spec == Init /\ [][Next]_vars

\* The classifier over a range of temperatures: one request with valid
\* parameters, whose forecast has one period of any temperature of the range.
ClassifyQueries == { [k \in Keys |-> <<"1">>] }

ClassifyPeriods ==
    { [ StartTime |-> Day1 \o <<"T", "0", "6">>, Temperature |-> t,
        ShortForecast |-> "Sunny", IsDaytime |-> TRUE ] :
      t \in (0 - MaxAbsTemp)..MaxAbsTemp }

ClassifyOutcomes == { ForecastBody(<<p>>) : p \in ClassifyPeriods }

NextClassify ==
    \E r \in Reqs :
        \/ Arrive(r, ClassifyQueries)
        \/ Handle(r)
        \/ PointsReturn(r, {PointsBody(GoodURL)})
        \/ ForecastReturn(r, ClassifyOutcomes, {Day1})

SpecClassify == Init /\ [][NextClassify]_vars

\* Several requests in flight at once, their steps interleaved in any
\* order, over a few queries and upstream outcomes of each kind.
ConcQueries ==
    { [k \in Keys |-> <<"1">>], [k \in Keys |-> <<"a">>], [k \in {"lat"} |-> <<"1">>] }

NightPeriod ==
    [ StartTime |-> Day1 \o <<"T", "1", "8">>, Temperature |-> 50,
      ShortForecast |-> "Rain", IsDaytime |-> FALSE ]

DayPeriod ==
    [ StartTime |-> Day1 \o <<"T", "0", "6">>, Temperature |-> 80,
      ShortForecast |-> "Sunny", IsDaytime |-> TRUE ]

ConcPointsOutcomes ==
    {TransportFailure(TransportErr), PointsBody(GoodURL), PointsBody(BadURL)}

ConcForecastOutcomes ==
    { NotJSON, ForecastBody(<<>>), ForecastBody(<<NightPeriod>>),
      ForecastBody(<<NightPeriod, DayPeriod>>) }

InitConc == InitReqs(1..NumReqs)

NextConc ==
    \E r \in Reqs :
        \/ Arrive(r, ConcQueries)
        \/ Handle(r)
        \/ PointsReturn(r, ConcPointsOutcomes)
        \/ ForecastReturn(r, ConcForecastOutcomes, Days)

SpecConc == InitConc /\ [][NextConc]_vars

-----------------------------------------------------------------------------
(* Properties *)

Labels == {"hot", "cold", "moderate"}

Ended(r) == pc[r] \in {"done", "panicked"}

\* The points call of r returned a body that decoded.
PointsDecoded(r) == pointsResp[r].err = NoError /\ pointsResp[r].valid

\* The points call of r failed, or its body did not decode.
PointsFailed(r) ==
    pointsResp[r].err \notin {NoError, NoValue}
        \/ (pointsResp[r].err = NoError /\ ~ pointsResp[r].valid)

\* The forecast call of r returned a body that decoded.
ForecastDecoded(r) == forecastResp[r].err = NoError /\ forecastResp[r].valid

ForecastFailed(r) ==
    forecastResp[r].err \notin {NoError, NoValue}
        \/ (forecastResp[r].err = NoError /\ ~ forecastResp[r].valid)

TextResponse(code, msg) ==
    [status |-> code, contentType |-> "text/plain; charset=utf-8", body |-> msg]

\* The response of r is the JSON encoding of period p with label c.
AnswersPeriod(r, p, c) ==
    /\ pc[r] = "done"
    /\ Len(response[r]) = 1
    /\ response[r][1].status = 200
    /\ response[r][1].contentType = "application/json"
    /\ response[r][1].body = EncodeWeatherResult(p.ShortForecast, p.Temperature, c)

\* C1: for every temperature t, the label of the answer is "hot" when
\* t >= 80, "cold" when t <= 50, and "moderate" when 51 <= t <= 79.
ClassifyThresholds ==
    \A r \in Reqs :
        ForecastDecoded(r) =>
            LET p == fr[r][1]
                t == p.Temperature
            IN  /\ t >= 80 => AnswersPeriod(r, p, "hot")
                /\ t <= 50 => AnswersPeriod(r, p, "cold")
                /\ (51 <= t /\ t <= 79) => AnswersPeriod(r, p, "moderate")

\* Witness of C1: a temperature of exactly 80 was answered "hot".
ClassifyBoundaryHot ==
    \E r \in Reqs :
        /\ ForecastDecoded(r)
        /\ fr[r][1].Temperature = 80
        /\ AnswersPeriod(r, fr[r][1], "hot")

\* C2: the parameter checks answer with the first failing check only:
\* lat or lon absent or empty -> 400 "Missing lat or lon parameter";
\* otherwise lat unparseable -> 400 "Invalid latitude"; otherwise lon
\* unparseable -> 400 "Invalid longitude".
ValidationOrder ==
    \A r \in Reqs :
        pc[r] \notin {"idle", "handling"} =>
            LET latMissing == "lat" \notin DOMAIN query[r] \/ query[r]["lat"] = <<>>
                lonMissing == "lon" \notin DOMAIN query[r] \/ query[r]["lon"] = <<>>
            IN  IF latMissing \/ lonMissing
                THEN response[r] = <<TextResponse(400, "Missing lat or lon parameter")>>
                ELSE IF ParseFloatFails(query[r]["lat"])
                THEN response[r] = <<TextResponse(400, "Invalid latitude")>>
                ELSE ParseFloatFails(query[r]["lon"]) =>
                        response[r] = <<TextResponse(400, "Invalid longitude")>>

\* Witness of C2: lat and lon are both unparseable, and the answer names
\* the latitude.
BothInvalidNamesLatitude ==
    \E r \in Reqs :
        /\ pc[r] = "done"
        /\ query[r] = [k \in Keys |-> <<"a">>]
        /\ response[r] = <<TextResponse(400, "Invalid latitude")>>

\* C3: when the points call or the forecast call fails, or its body does
\* not decode, the response is 500 with the body "Failed to fetch
\* forecast", and the error text is in the log and not in the response.
FailureIsOpaque ==
    \A r \in Reqs :
        (PointsFailed(r) \/ ForecastFailed(r)) =>
            /\ pc[r] = "done"
            /\ response[r] = <<TextResponse(500, "Failed to fetch forecast")>>
            /\ err[r] \in ErrTexts
            /\ response[r][1].body # err[r]
            /\ \E i \in DOMAIN log : log[i].req = r /\ log[i].err = err[r]

\* Witness of C3: the body of the forecast call did not decode.
ForecastDecodeFailureAnswered ==
    \E r \in Reqs :
        /\ PointsDecoded(r)
        /\ forecastResp[r] = NotJSON
        /\ err[r] = DecodeErr
        /\ response[r] = <<TextResponse(500, "Failed to fetch forecast")>>

\* C4: in every 200 response, forecast and temperature are those of one
\* period of the forecast, and classification is the label of that
\* temperature.
ResultIsOnePeriod ==
    \A r \in Reqs :
        (Len(response[r]) > 0 /\ response[r][1].status = 200) =>
            \E i \in DOMAIN fr[r] :
                AnswersPeriod(r, fr[r][i], classify(fr[r][i].Temperature))

\* Witness of C4: a 200 response taken from the second of two periods of
\* different temperatures.
SecondPeriodAnswered ==
    \E r \in Reqs :
        /\ Len(fr[r]) = 2
        /\ fr[r][1].Temperature = 50
        /\ fr[r][2].Temperature = 80
        /\ AnswersPeriod(r, fr[r][2], "hot")

\* Period p is a daytime period of at least 10 characters of timestamp
\* whose first 10 are the day.
Applicable(p, day) ==
    /\ p.IsDaytime = TRUE
    /\ Len(p.StartTime) >= 10
    /\ \A k \in 1..10 : p.StartTime[k] = day[k]

\* C5: of a non-empty period sequence the lowest-index applicable period
\* is selected, and the period at index 0 when none is applicable; the
\* request is answered 200 with the selected period.
SelectionPolicy ==
    \A r \in Reqs :
        (ForecastDecoded(r) /\ Len(fr[r]) > 0) =>
            LET applicable == { i \in DOMAIN fr[r] : Applicable(fr[r][i], today[r]) }
                selected ==
                    IF applicable = {} THEN 1
                    ELSE CHOOSE i \in applicable : \A j \in applicable : i <= j
            IN  \E c \in Labels : AnswersPeriod(r, fr[r][selected], c)

\* Witness of C5: no period is applicable (the first is a night period of
\* another day, the second a daytime period with a short timestamp) and
\* the first one is answered.
FallbackAnswered ==
    \E r \in Reqs :
        /\ ForecastDecoded(r)
        /\ Len(fr[r]) = 2
        /\ ~ fr[r][1].IsDaytime
        /\ Len(fr[r][1].StartTime) >= 10
        /\ SubSeq(fr[r][1].StartTime, 1, 10) # today[r]
        /\ fr[r][2].IsDaytime
        /\ Len(fr[r][2].StartTime) < 10
        /\ fr[r][1].ShortForecast # fr[r][2].ShortForecast
        /\ \E c \in Labels : AnswersPeriod(r, fr[r][1], c)

\* C6: a decoded forecast of zero periods is answered with one response of
\* status 5xx, and the handler does not panic.
EmptyPeriodsReported ==
    \A r \in Reqs :
        (ForecastDecoded(r) /\ fr[r] = <<>>) =>
            /\ pc[r] = "done"
            /\ Len(response[r]) = 1
            /\ response[r][1].status \in 500..599

FixedTextResponses ==
    { TextResponse(400, "Missing lat or lon parameter"),
      TextResponse(400, "Invalid latitude"),
      TextResponse(400, "Invalid longitude"),
      TextResponse(500, "Failed to fetch forecast") }

\* C7: a request never has more than one response, and a request that has
\* ended has exactly one, which is a 200 JSON result or one of the four
\* fixed text responses.
OneFixedResponse ==
    \A r \in Reqs :
        /\ Len(response[r]) <= 1
        /\ Ended(r) =>
            /\ Len(response[r]) = 1
            /\ \/ response[r][1] \in FixedTextResponses
               \/ /\ response[r][1].status = 200
                  /\ response[r][1].contentType = "application/json"

\* C8: at most one points call and one forecast call are issued; the
\* forecast call only after the points call returned a body that decoded;
\* when the points call fails or does not decode, no forecast call is
\* issued and the request fails at once.
SequentialCalls ==
    \A r \in Reqs :
        /\ pointsCalls[r] <= 1
        /\ forecastCalls[r] <= 1
        /\ forecastCalls[r] = 1 => (pointsCalls[r] = 1 /\ PointsDecoded(r))
        /\ PointsFailed(r) =>
            /\ forecastCalls[r] = 0
            /\ pc[r] = "done"
            /\ response[r] = <<TextResponse(500, "Failed to fetch forecast")>>

\* Witness of C8: the body of the points call did not decode, and the
\* request failed without a forecast call.
PointsDecodeFailureStops ==
    \E r \in Reqs :
        /\ pointsResp[r] = NotJSON
        /\ pointsCalls[r] = 1
        /\ forecastCalls[r] = 0
        /\ pc[r] = "done"

\* The state of request q, and what decides the outcome of a request.
ReqState(q) ==
    << pc[q], query[q], pointsCalls[q], forecastCalls[q], pointsResp[q],
       forecastURL[q], forecastResp[q], fr[q], today[q], err[q], response[q] >>

Inputs(r) == <<query[r], pointsResp[r], forecastResp[r], today[r]>>

StepLeavesOthers ==
    \A r \in Reqs : \A q \in Reqs \ {r} :
        pc'[r] # pc[r] => ReqState(q)' = ReqState(q)

SameInputsSameOutcome ==
    \A r \in Reqs : \A q \in Reqs :
        (Ended(r) /\ Ended(q) /\ Inputs(r) = Inputs(q)) =>
            (response[r] = response[q] /\ pc[r] = pc[q])

\* C9: under any interleaving, a step of one request changes nothing of
\* another request, and two requests with the same parameters, the same
\* upstream responses and the same date end with the same outcome.
IndependentRequests == [][StepLeavesOthers /\ SameInputsSameOutcome']_vars

\* Witness of C9: two requests with the same parameters were in flight
\* together; one was answered 200 and the other, whose upstream call
\* failed, 500.
InterleavedOutcomes ==
    \E r \in Reqs : \E q \in Reqs \ {r} :
        /\ query[r] = query[q]
        /\ pc[r] = "done"
        /\ Len(response[r]) = 1
        /\ response[r][1].status = 200
        /\ pc[q] = "done"
        /\ response[q] = <<TextResponse(500, "Failed to fetch forecast")>>
        /\ Len(log) = 1

\* C10: a request answered 400 has issued no outbound call, and a request
\* that has issued one has both parameters present and parseable.
ValidationBeforeCalls ==
    \A r \in Reqs :
        /\ (Len(response[r]) > 0 /\ response[r][1].status = 400) =>
                (pointsCalls[r] = 0 /\ forecastCalls[r] = 0)
        /\ (pointsCalls[r] > 0 \/ forecastCalls[r] > 0) =>
                /\ DOMAIN query[r] = Keys
                /\ \A k \in Keys :
                    query[r][k] # <<>> /\ ~ ParseFloatFails(query[r][k])

\* Witness of C10: an unparseable longitude was answered 400 and no call
\* was issued.
InvalidLongitudeNoCall ==
    \E r \in Reqs :
        /\ response[r] = <<TextResponse(400, "Invalid longitude")>>
        /\ pointsCalls[r] = 0
        /\ forecastCalls[r] = 0
        /\ pc[r] = "done"

====
